---- MODULE Spec2Model ----
(***************************************************************************)
(* A model of flytekit_learn.model.Model: the decorators that register     *)
(* the initializer, trainer, predictor and evaluator, the tasks and        *)
(* workflows assembled from them, and train / predict / remote.            *)
(*                                                                         *)
(* The Model object is the record `self`, one field per attribute, with    *)
(* the attribute names of the source.  Every method is an operator from    *)
(* the object (and the arguments) to the object afterwards, the value      *)
(* returned or the exception raised, and the log of the calls made to the  *)
(* user's functions.  An action is one call of a public method.            *)
(***************************************************************************)
EXTENDS Naturals, Sequences, FiniteSets, TLC

VARIABLES
    self,   \* the Model object
    op,     \* the call made last: the method and its arguments
    ret,    \* what that call returned or raised
    calls   \* the user functions and dataset methods that call ran, in order

vars == <<self, op, ret, calls>>

(***************************************************************************)
(* Bounds                                                                  *)
(***************************************************************************)
\* hyperparameter dictionaries {"C": 1} .. {"C": MaxHyper}
MaxHyper == 2

(***************************************************************************)
(* Python values                                                           *)
(***************************************************************************)
None == [kind |-> "None"]
\* an attribute that was never assigned: reading it raises AttributeError
Unset == [kind |-> "unset"]
Dict(items) == [kind |-> "dict", items |-> items]
EmptyDict == Dict(<<>>)
Fn(n, ps) == [kind |-> "function", name |-> n, params |-> ps]
Return(v) == [kind |-> "return", value |-> v]
Raise(e, l) == [kind |-> "raise", exc |-> e, line |-> l]
Raised(r) == r.kind = "raise"

Range(s) == {s[i] : i \in 1..Len(s)}

\* Python's binding of a call fn(a1, .., a_npos, k1=.., ..) to the parameters
\* of fn (no defaults, no *args, no **kwargs): TypeError unless it holds.
Binds(fn, npos, kws) ==
    /\ npos <= Len(fn.params)
    /\ kws \subseteq {fn.params[i] : i \in (npos + 1)..Len(fn.params)}
    /\ npos + Cardinality(kws) = Len(fn.params)

(***************************************************************************)
(* The functions a user registers                                          *)
(***************************************************************************)
\* Model._init until an initializer is registered (bound: self is stripped)
_default_init_model == Fn("_default_init_model", <<"init_cls", "hyperparameters">>)
InitFns == {Fn("init", <<"hyperparameters">>), Fn("init_hp", <<"hp">>)}
TrainerFns == {Fn("trainer", <<"model", "features", "target">>)}
PredictorFns == {Fn("predictor", <<"model", "features">>)}
EvaluatorFns == {Fn("evaluator", <<"model", "features", "target">>)}
InitClasses == {None, [kind |-> "class", module |-> "sklearn.linear_model", name |-> "LogisticRegression"]}
ModelNames == {"model", "model.predict"}
TaskOptions == {EmptyDict, Dict([cache |-> TRUE])}
HyperDicts == {Dict([C |-> i]) : i \in 1..MaxHyper}

(***************************************************************************)
(* The Dataset collaborator                                                *)
(***************************************************************************)
\* the inputs of the reader task, in order
reader_inputs == <<"path">>
\* the single entry of Dataset.reader_return_type
data_arg_name == "data"
dataset_task == [kind |-> "task", name |-> "dataset_task",
                 inputs |-> reader_inputs, outputs |-> <<data_arg_name>>]
\* what the reader task returns for its keyword arguments
reader(kwargs) == [kind |-> "raw_data", read |-> kwargs]
Parsed(raw) == [kind |-> "parsed", of |-> raw]
\* Dataset.get_data: the parsed data split in two, each (features, target)
get_data(raw) ==
    [s \in {"train", "test"} |->
        << [kind |-> "features", split |-> s, of |-> Parsed(raw)],
           [kind |-> "target", split |-> s, of |-> Parsed(raw)] >>]
feature_getter(parsed) == [kind |-> "features", split |-> "all", of |-> parsed]
ReaderKwargs == {<<>>, [path |-> [kind |-> "str", s |-> "data.csv"]]}

(***************************************************************************)
(* Model.__init__                                                          *)
(***************************************************************************)
__init__(name, init) ==
    [ name |-> name,
      _init_cls |-> init,
      _latest_model |-> None,
      _latest_metrics |-> Unset,
      _remote |-> None,
      _config_file_path |-> None,
      _registry |-> None,
      _dockerfile |-> None,
      _train_task |-> None,
      _predict_task |-> None,
      _predict_from_features_task |-> None,
      _train_task_kwargs |-> None,
      _predict_task_kwargs |-> None,
      _init |-> _default_init_model,
      _trainer |-> Unset,
      _predictor |-> Unset,
      _evaluator |-> Unset ]

train_workflow_name(s) == s.name \o ".train"
predict_workflow_name(s) == s.name \o ".predict"
predict_from_features_workflow_name(s) == s.name \o ".predict_from_features"

(***************************************************************************)
(* The registration decorators.  Each returns the object afterwards and    *)
(* the value returned.                                                     *)
(***************************************************************************)
Partial(method, kwargs) == [kind |-> "partial", func |-> method, keywords |-> kwargs]

init(s, fn) ==
    [self |-> [s EXCEPT !._init = fn], ret |-> Return(fn)]

trainer(s, fn, train_task_kwargs) ==
    IF fn = None
    THEN [self |-> s, ret |-> Return(Partial("trainer", train_task_kwargs))]
    ELSE [self |-> [s EXCEPT !._trainer = fn, !._train_task_kwargs = train_task_kwargs],
          ret |-> Return(fn)]

predictor(s, fn, predict_task_kwargs) ==
    IF fn = None
    THEN [self |-> s, ret |-> Return(Partial("trainer", predict_task_kwargs))]
    ELSE [self |-> [s EXCEPT !._predictor = fn, !._predict_task_kwargs = predict_task_kwargs],
          ret |-> Return(fn)]

evaluator(s, fn) ==
    [self |-> [s EXCEPT !._evaluator = fn], ret |-> Return(fn)]

\* functools.partial(self.<func>, **keywords) applied to fn
CallPartial(s, p, fn) ==
    IF p.func = "trainer" THEN trainer(s, fn, p.keywords) ELSE predictor(s, fn, p.keywords)

\* @model.trainer over fn, or @model.trainer(**kwargs) over fn
Decorate(s, method, form, kwargs, fn) ==
    IF form = "bare"
    THEN IF method = "trainer" THEN trainer(s, fn, EmptyDict) ELSE predictor(s, fn, EmptyDict)
    ELSE LET first == IF method = "trainer" THEN trainer(s, None, kwargs)
                      ELSE predictor(s, None, kwargs)
         IN CallPartial(first.self, first.ret.value, fn)

(***************************************************************************)
(* Tasks.  inner_task wraps a function as a task whose inputs are the      *)
(* names of input_parameters and whose outputs are those of the return     *)
(* annotation; running the task calls the function with the inputs as      *)
(* keyword arguments.                                                      *)
(***************************************************************************)
inner_task(name, input_parameters, outputs, task_kwargs) ==
    [kind |-> "task", name |-> name, inputs |-> input_parameters,
     outputs |-> outputs, task_kwargs |-> task_kwargs]

train_task(s) ==
    IF s._train_task # None THEN [self |-> s, ret |-> Return(s._train_task)]
    ELSE IF Len(s._init.params) = 0 THEN [self |-> s, ret |-> Raise("ValueError", 165)]
    ELSE IF s._trainer = Unset THEN [self |-> s, ret |-> Raise("AttributeError", 195)]
    ELSE IF s._evaluator = Unset THEN [self |-> s, ret |-> Raise("AttributeError", 196)]
    ELSE LET hyperparameters_param == s._init.params[Len(s._init.params)]
             task == inner_task("train_task",
                                <<hyperparameters_param, data_arg_name>>,
                                <<"trained_model", "metrics">>,
                                IF s._train_task_kwargs = None THEN EmptyDict
                                ELSE s._train_task_kwargs)
         IN [self |-> [s EXCEPT !._train_task = task], ret |-> Return(task)]

predict_task(s) ==
    IF s._predict_task # None THEN [self |-> s, ret |-> Return(s._predict_task)]
    ELSE IF s._predictor = Unset THEN [self |-> s, ret |-> Raise("AttributeError", 220)]
    ELSE IF Len(s._predictor.params) = 0 THEN [self |-> s, ret |-> Raise("ValueError", 221)]
    ELSE IF s._predict_task_kwargs = None THEN [self |-> s, ret |-> Raise("TypeError", 232)]
    ELSE LET model_param == s._predictor.params[1]
             task == inner_task("predict_task", <<model_param, data_arg_name>>,
                                <<"o0">>, s._predict_task_kwargs)
         IN [self |-> [s EXCEPT !._predict_task = task], ret |-> Return(task)]

predict_from_features_task(s) ==
    IF s._predict_from_features_task # None
    THEN [self |-> s, ret |-> Return(s._predict_from_features_task)]
    ELSE IF s._predictor = Unset THEN [self |-> s, ret |-> Raise("AttributeError", 245)]
    ELSE IF s._predict_task_kwargs = None THEN [self |-> s, ret |-> Raise("TypeError", 257)]
    ELSE LET ps == s._predictor.params
             task == inner_task("predict_from_features_task",
                                [i \in 1..Len(ps) |-> IF i = 1 THEN "model" ELSE ps[i]],
                                <<"o0">>, s._predict_task_kwargs)
         IN [self |-> [s EXCEPT !._predict_from_features_task = task], ret |-> Return(task)]

(***************************************************************************)
(* The imperative workflow of the orchestration library, as the calls      *)
(* made on it record it: the inputs, the nodes with what each of their     *)
(* inputs is bound to, and the outputs.                                    *)
(***************************************************************************)
Workflow(name) ==
    [kind |-> "workflow", name |-> name, inputs |-> <<>>, nodes |-> <<>>, outputs |-> <<>>]
add_workflow_input(wf, arg) == [wf EXCEPT !.inputs = Append(@, arg)]
\* wf.inputs[k]
WfInput(k) == [from |-> "input", name |-> k]
\* node.outputs: one promise per output of the node's task
NodeOutputs(n, task) ==
    [o \in Range(task.outputs) |-> [from |-> "node", node |-> n, output |-> o]]
add_entity(wf, task, bindings) ==
    [wf EXCEPT !.nodes = Append(@, [entity |-> task, bindings |-> bindings])]
add_workflow_output(wf, name, promise) ==
    [wf EXCEPT !.outputs = Append(@, [name |-> name, promise |-> promise])]

\* for arg, type in <task>.python_interface.inputs.items(): wf.add_workflow_input(arg, type)
RECURSIVE AddInputs(_, _, _)
AddInputs(wf, args, i) ==
    IF i > Len(args) THEN wf ELSE AddInputs(add_workflow_input(wf, args[i]), args, i + 1)

RECURSIVE AddOutputs(_, _, _, _)
AddOutputs(wf, names, promises, i) ==
    IF i > Len(names) THEN wf
    ELSE AddOutputs(add_workflow_output(wf, names[i], promises[names[i]]), names, promises, i + 1)

\* the two outputs of the train workflow, taken from the train node
TrainWorkflowOutputs_crossed(wf, train_node) ==
    add_workflow_output(add_workflow_output(wf, "trained_model", train_node["metrics"]),
                        "metrics", train_node["trained_model"])
TrainWorkflowOutputs(wf, train_node) ==
    add_workflow_output(add_workflow_output(wf, "trained_model", train_node["trained_model"]),
                        "metrics", train_node["metrics"])

train_workflow(s) ==
    LET t == train_task(s) IN
    IF Raised(t.ret) THEN t
    ELSE LET task == t.ret.value
             hyperparam_arg == task.inputs[1]
             wf0 == Workflow(train_workflow_name(s))
             wf1 == add_workflow_input(wf0, hyperparam_arg)
             wf2 == AddInputs(wf1, dataset_task.inputs, 1)
             wf3 == add_entity(wf2, dataset_task,
                               [k \in Range(dataset_task.inputs) |-> WfInput(k)])
             dataset_node == NodeOutputs(Len(wf3.nodes), dataset_task)
             wf4 == add_entity(wf3, task,
                               (hyperparam_arg :> WfInput(hyperparam_arg)) @@ dataset_node)
             train_node == NodeOutputs(Len(wf4.nodes), task)
             wf5 == TrainWorkflowOutputs(wf4, train_node)
         IN [self |-> t.self, ret |-> Return(wf5)]

predict_workflow(s) ==
    LET t == predict_task(s) IN
    IF Raised(t.ret) THEN t
    ELSE IF "model" \notin Range(t.ret.value.inputs)
    THEN [self |-> t.self, ret |-> Raise("KeyError", 135)]
    ELSE LET task == t.ret.value
             wf0 == Workflow(predict_workflow_name(s))
             wf1 == add_workflow_input(wf0, "model")
             wf2 == AddInputs(wf1, dataset_task.inputs, 1)
             wf3 == add_entity(wf2, dataset_task,
                               [k \in Range(dataset_task.inputs) |-> WfInput(k)])
             dataset_node == NodeOutputs(Len(wf3.nodes), dataset_task)
             wf4 == add_entity(wf3, task, ("model" :> WfInput("model")) @@ dataset_node)
             predict_node == NodeOutputs(Len(wf4.nodes), task)
             wf5 == AddOutputs(wf4, task.outputs, predict_node, 1)
         IN [self |-> t.self, ret |-> Return(wf5)]

predict_from_features_workflow(s) ==
    LET t == predict_from_features_task(s) IN
    IF Raised(t.ret) THEN t
    ELSE LET task == t.ret.value
             wf0 == Workflow(predict_from_features_workflow_name(s))
             wf1 == AddInputs(wf0, task.inputs, 1)
             wf2 == add_entity(wf1, task, [k \in Range(wf1.inputs) |-> WfInput(k)])
             predict_node == NodeOutputs(Len(wf2.nodes), task)
             wf3 == AddOutputs(wf2, task.outputs, predict_node, 1)
         IN [self |-> t.self, ret |-> Return(wf3)]

(***************************************************************************)
(* The bodies of the tasks: what running each task does with its inputs.   *)
(* Each gives the value returned or the exception raised, and the calls    *)
(* made, in order.                                                         *)
(***************************************************************************)
\* one call: who was called, with which positional arguments, and what it returned
Call(role, fn, args, result) == [role |-> role, fn |-> fn, args |-> args, result |-> result]
Ran(r, cs) == [ret |-> r, calls |-> cs]

\* what the registered initializer returns (for _default_init_model,
\* cls(**hyperparameters))
InitResult(s, hyperparameters) ==
    [kind |-> "estimator", init |-> s._init.name, hyperparameters |-> hyperparameters]
TrainedModel(s, model, split) ==
    [kind |-> "trained_model", trainer |-> s._trainer.name, model |-> model]
Metric(s, trained_model, split_key) ==
    [kind |-> "metric", evaluator |-> s._evaluator.name, split |-> split_key]

\* the splits the evaluator is run on, in order
split_keys_swapped == <<"test", "train">>
split_keys == <<"train", "test">>

train_task_body(s, kwargs) ==
    IF "hyperparameters" \notin DOMAIN kwargs THEN Ran(Raise("KeyError", 201), <<>>)
    ELSE
    LET hyperparameters == kwargs["hyperparameters"]
        raw_data == kwargs[data_arg_name]
        training_data == get_data(raw_data)
        init_kwargs == IF s._init_cls # None THEN {"init_cls"} ELSE {}
        c1 == <<Call("get_data", "get_data", <<raw_data>>, training_data)>>
    IN
    IF s._trainer = Unset THEN Ran(Raise("AttributeError", 204), c1)
    ELSE IF ~Binds(s._init, 0, {"hyperparameters"} \cup init_kwargs)
    THEN Ran(Raise("TypeError", 205), c1)
    ELSE
    LET model == InitResult(s, hyperparameters)
        c2 == Append(c1, Call("init", s._init.name, <<hyperparameters>>, model))
        train == training_data["train"]
    IN
    IF ~Binds(s._trainer, 1 + Len(train), {}) THEN Ran(Raise("TypeError", 204), c2)
    ELSE
    LET trained_model == TrainedModel(s, model, train)
        c3 == Append(c2, Call("trainer", s._trainer.name, <<model>> \o train, trained_model))
        c4 == c3 \o [i \in 1..Len(split_keys) |->
                        Call("evaluator", s._evaluator.name,
                             <<trained_model>> \o training_data[split_keys[i]],
                             Metric(s, trained_model, split_keys[i]))]
    IN
    IF s._evaluator = Unset THEN Ran(Raise("AttributeError", 209), c3)
    ELSE IF ~Binds(s._evaluator, 1 + Len(train), {}) THEN Ran(Raise("TypeError", 209), c3)
    ELSE Ran(Return(<<trained_model,
                      [k \in Range(split_keys) |-> Metric(s, trained_model, k)]>>), c4)

Predictions(s, model, features) ==
    [kind |-> "predictions", predictor |-> s._predictor.name,
     model |-> model, features |-> features]

\* the last two lines of both predict tasks: parse, take the features, predict
ParseAndPredict(s, model, data, line) ==
    LET parsed_data == Parsed(data)
        features == feature_getter(parsed_data)
        c1 == <<Call("parser", "parser", <<data>>, parsed_data)>>
        c2 == Append(c1, Call("feature_getter", "feature_getter", <<parsed_data>>, features))
    IN
    IF s._predictor = Unset THEN Ran(Raise("AttributeError", line), c1)
    ELSE IF ~Binds(s._predictor, 2, {}) THEN Ran(Raise("TypeError", line), c2)
    ELSE Ran(Return(Predictions(s, model, features)),
             Append(c2, Call("predictor", s._predictor.name, <<model, features>>,
                             Predictions(s, model, features))))

predict_task_body(s, kwargs) ==
    IF "model" \notin DOMAIN kwargs THEN Ran(Raise("TypeError", 234), <<>>)
    ELSE ParseAndPredict(s, kwargs["model"], kwargs[data_arg_name], 236)

predict_from_features_task_body(s, kwargs) ==
    IF DOMAIN kwargs # {"model", "features"} THEN Ran(Raise("TypeError", 259), <<>>)
    ELSE ParseAndPredict(s, kwargs["model"], kwargs["features"], 261)

(***************************************************************************)
(* Running a workflow locally: the keyword arguments must be the inputs of *)
(* the workflow; the nodes run in the order they were added, each on the   *)
(* values its inputs are bound to; the outputs are returned.               *)
(***************************************************************************)
RunTask(s, task, inputs) ==
    CASE task.name = "dataset_task" -> Ran(Return(reader(inputs)), <<>>)
      [] task.name = "train_task" -> train_task_body(s, inputs)
      [] task.name = "predict_task" -> predict_task_body(s, inputs)
      [] task.name = "predict_from_features_task" -> predict_from_features_task_body(s, inputs)

Resolve(p, kwargs, env) ==
    IF p.from = "input" THEN kwargs[p.name] ELSE env[p.node][p.output]

\* the value a task returned, by output name
OutputsOf(task, value) ==
    IF Len(task.outputs) = 1 THEN task.outputs[1] :> value
    ELSE [o \in Range(task.outputs) |->
            value[CHOOSE i \in 1..Len(task.outputs) : task.outputs[i] = o]]

WorkflowResult(wf, kwargs, env) ==
    LET outs == [i \in 1..Len(wf.outputs) |-> Resolve(wf.outputs[i].promise, kwargs, env)]
    IN IF Len(outs) = 1 THEN outs[1] ELSE outs

RECURSIVE RunNodes(_, _, _, _, _, _)
RunNodes(s, wf, kwargs, i, env, log) ==
    IF i > Len(wf.nodes) THEN Ran(Return(WorkflowResult(wf, kwargs, env)), log)
    ELSE LET node == wf.nodes[i]
             inputs == [k \in DOMAIN node.bindings |-> Resolve(node.bindings[k], kwargs, env)]
             r == RunTask(s, node.entity, inputs)
         IN IF Raised(r.ret) THEN Ran(r.ret, log \o r.calls)
            ELSE RunNodes(s, wf, kwargs, i + 1,
                          Append(env, OutputsOf(node.entity, r.ret.value)), log \o r.calls)

CallWorkflow(s, wf, kwargs, line) ==
    IF DOMAIN kwargs # Range(wf.inputs) THEN Ran(Raise("FlyteInputError", line), <<>>)
    ELSE RunNodes(s, wf, kwargs, 1, <<>>, <<>>)

(***************************************************************************)
(* Model.train, Model.predict, Model.remote                                *)
(***************************************************************************)
Done(s, r, cs) == [self |-> s, ret |-> r, calls |-> cs]

\* the two early exits of train, in the order the code takes them
TrainExit_unchecked(hyperparameters, lazy) ==
    IF lazy THEN "lazy" ELSE "run"
TrainExit_validates_first(hyperparameters, lazy) ==
    IF hyperparameters = None THEN "invalid" ELSE IF lazy THEN "lazy" ELSE "run"
TrainExit(hyperparameters, lazy) ==
    IF lazy THEN "lazy" ELSE IF hyperparameters = None THEN "invalid" ELSE "run"

\* self._latest_model = trained_model; self._latest_metrics = metrics
StoreLatest_forgets(s, trained_model, metrics) == s
StoreLatest(s, trained_model, metrics) ==
    [s EXCEPT !._latest_model = trained_model, !._latest_metrics = metrics]

train(s, hyperparameters, lazy, reader_kwargs) ==
    LET w == train_workflow(s)
        train_wf == w.ret.value
        exit == TrainExit(hyperparameters, lazy)
    IN
    IF Raised(w.ret) THEN Done(w.self, w.ret, <<>>)
    ELSE IF exit = "lazy" THEN Done(w.self, Return(train_wf), <<>>)
    ELSE IF exit = "invalid" THEN Done(w.self, Raise("ValueError", 278), <<>>)
    ELSE
    LET r == CallWorkflow(w.self, train_wf,
                          ("hyperparameters" :> hyperparameters) @@ reader_kwargs, 280)
    IN
    IF Raised(r.ret) THEN Done(w.self, r.ret, r.calls)
    ELSE Done(StoreLatest(w.self, r.ret.value[1], r.ret.value[2]),
              Return(<<r.ret.value[1], r.ret.value[2]>>), r.calls)

\* the keyword arguments predict runs the predict-from-features workflow with
PredictFromFeaturesKwargs_with_reader(model, features, reader_kwargs) ==
    ("model" :> model) @@ ("features" :> features) @@ reader_kwargs
PredictFromFeaturesKwargs(model, features, reader_kwargs) ==
    ("model" :> model) @@ ("features" :> features)

predict(s, model, features, lazy, reader_kwargs) ==
    LET w == IF features = None THEN predict_workflow(s)
             ELSE predict_from_features_workflow(s)
        predict_wf == w.ret.value
    IN
    IF Raised(w.ret) THEN Done(w.self, w.ret, <<>>)
    ELSE IF lazy THEN Done(w.self, Return(predict_wf), <<>>)
    ELSE
    LET r == IF features = None
             THEN CallWorkflow(w.self, predict_wf, ("model" :> model) @@ reader_kwargs, 300)
             ELSE CallWorkflow(w.self, predict_wf,
                               PredictFromFeaturesKwargs(model, features, reader_kwargs), 301)
    IN Done(w.self, r.ret, r.calls)

FlyteRemote(config_file_path, project, domain) ==
    [kind |-> "FlyteRemote", config_file_path |-> config_file_path,
     default_project |-> project, default_domain |-> domain]

remote(s, registry, dockerfile, config_file_path, project, domain) ==
    Done([s EXCEPT !._config_file_path = config_file_path,
                   !._registry = registry,
                   !._dockerfile = dockerfile,
                   !._remote = FlyteRemote(config_file_path, project, domain)],
         Return(None), <<>>)

(***************************************************************************)
(* The state machine: a Model is constructed, then its public methods are  *)
(* called in any order with any arguments.                                 *)
(***************************************************************************)
Str(x) == [kind |-> "str", s |-> x]
Registries == {Str("registry")}
NewFeatures == [kind |-> "features", split |-> "new", of |-> Str("features.csv")]
Forms == {"bare", "parameterised"}

NoOp == [name |-> "__init__"]

Init ==
    /\ \E name \in ModelNames, cls \in InitClasses : self = __init__(name, cls)
    /\ op = NoOp
    /\ ret = Return(None)
    /\ calls = <<>>

Step(o, r) ==
    /\ op' = o
    /\ self' = r.self
    /\ ret' = r.ret
    /\ calls' = IF "calls" \in DOMAIN r THEN r.calls ELSE <<>>

CallInit ==
    \E fn \in InitFns : Step([name |-> "init", fn |-> fn], init(self, fn))

CallTrainer ==
    \E fn \in TrainerFns, form \in Forms, kwargs \in TaskOptions :
        /\ form = "bare" => kwargs = EmptyDict
        /\ Step([name |-> "trainer", fn |-> fn, form |-> form, kwargs |-> kwargs],
                Decorate(self, "trainer", form, kwargs, fn))

CallPredictor ==
    \E fn \in PredictorFns, form \in Forms, kwargs \in TaskOptions :
        /\ form = "bare" => kwargs = EmptyDict
        /\ Step([name |-> "predictor", fn |-> fn, form |-> form, kwargs |-> kwargs],
                Decorate(self, "predictor", form, kwargs, fn))

CallEvaluator ==
    \E fn \in EvaluatorFns : Step([name |-> "evaluator", fn |-> fn], evaluator(self, fn))

CallTrain ==
    \E hyperparameters \in HyperDicts \cup {None}, lazy \in BOOLEAN,
       reader_kwargs \in ReaderKwargs :
        Step([name |-> "train", hyperparameters |-> hyperparameters, lazy |-> lazy,
              reader_kwargs |-> reader_kwargs],
             train(self, hyperparameters, lazy, reader_kwargs))

CallPredict ==
    \E model \in {self._latest_model}, features \in {None, NewFeatures},
       lazy \in BOOLEAN, reader_kwargs \in ReaderKwargs :
        Step([name |-> "predict", model |-> model, features |-> features, lazy |-> lazy,
              reader_kwargs |-> reader_kwargs],
             predict(self, model, features, lazy, reader_kwargs))

CallRemote ==
    \E registry \in Registries :
        Step([name |-> "remote", registry |-> registry],
             remote(self, registry, Str("Dockerfile"), None, None, None))

Next ==
    \/ CallInit
    \/ CallTrainer
    \/ CallPredictor
    \/ CallEvaluator
    \/ CallTrain
    \/ CallPredict
    \/ CallRemote

Spec == Init /\ [][Next]_vars

(***************************************************************************)
(* Properties                                                              *)
(***************************************************************************)
\* the train workflow can be built: a trainer and an evaluator are registered
TrainerAndEvaluatorRegistered == self._trainer # Unset /\ self._evaluator # Unset
PredictorRegistered == self._predictor # Unset
Latest(s) == <<s._latest_model, s._latest_metrics>>
IsWorkflowNamed(r, name) ==
    r.kind = "return" /\ r.value.kind = "workflow" /\ r.value.name = name

\* C1: train(hyperparameters=None, lazy=False) raises, runs nothing (no call
\* of init, trainer or evaluator) and leaves _latest_model and
\* _latest_metrics as they were; on a model whose trainer and evaluator are
\* registered, so that the train workflow is built, what it raises is the
\* ValueError of the validation check.
C1_TrainWithoutHyperparametersRaises ==
    [][ (op'.name = "train" /\ ~op'.lazy /\ op'.hyperparameters = None) =>
            /\ Raised(ret')
            /\ TrainerAndEvaluatorRegistered => ret' = Raise("ValueError", 278)
            /\ calls' = <<>>
            /\ Latest(self') = Latest(self) ]_vars

\* a train without hyperparameters, after a model was trained, raised ValueError
C1_Witness ==
    /\ op.name = "train" /\ ~op.lazy /\ op.hyperparameters = None
    /\ ret = Raise("ValueError", 278)
    /\ self._latest_model # None

\* C2 (as claimed): each decorator, bare or parameterised, returns the
\* function and leaves it registered in its own slot with the options given;
\* registering a predictor changes neither the trainer nor the train-task
\* options.
C2_DecoratorsRegisterInOwnSlot ==
    [][ /\ op'.name = "trainer" =>
              /\ ret' = Return(op'.fn)
              /\ self'._trainer = op'.fn
              /\ self'._train_task_kwargs = op'.kwargs
        /\ op'.name = "predictor" =>
              /\ ret' = Return(op'.fn)
              /\ self'._predictor = op'.fn
              /\ self'._predict_task_kwargs = op'.kwargs
              /\ self'._trainer = self._trainer
              /\ self'._train_task_kwargs = self._train_task_kwargs ]_vars

\* C3: a lazy train raises no ValueError whatever the hyperparameters, calls
\* none of init, trainer and evaluator and leaves _latest_model and
\* _latest_metrics as they were, and returns the train workflow (whenever
\* trainer and evaluator are registered, so that there is one); a lazy
\* predict calls nothing and returns the workflow selected by features
\* (whenever a predictor is registered).
C3_LazyCallsRunNothing ==
    [][ /\ (op'.name = "train" /\ op'.lazy) =>
              /\ ~(Raised(ret') /\ ret'.exc = "ValueError")
              /\ calls' = <<>>
              /\ Latest(self') = Latest(self)
              /\ TrainerAndEvaluatorRegistered =>
                     IsWorkflowNamed(ret', self.name \o ".train")
        /\ (op'.name = "predict" /\ op'.lazy) =>
              /\ calls' = <<>>
              /\ Latest(self') = Latest(self)
              /\ PredictorRegistered =>
                     IsWorkflowNamed(ret', IF op'.features = None
                                           THEN self.name \o ".predict"
                                           ELSE self.name \o ".predict_from_features") ]_vars

\* a lazy train without hyperparameters, after a model was trained, returned
\* the workflow
C3_Witness ==
    /\ op.name = "train" /\ op.lazy /\ op.hyperparameters = None
    /\ IsWorkflowNamed(ret, self.name \o ".train")
    /\ self._latest_model # None

\* C4: predict selects its workflow by features alone.  Without features it
\* is the workflow <name>.predict, run with model and the reader keyword
\* arguments (the reader reads exactly those); with features it is the
\* workflow <name>.predict_from_features, whose only node is the predict
\* task, run with model and features alone whatever reader keyword arguments
\* were given.  The train workflow is <name>.train and the three names
\* differ.  (A predictor is registered, so that there is a workflow.)
C4_PredictSelectsByFeatures ==
    /\ Cardinality({train_workflow_name(self), predict_workflow_name(self),
                    predict_from_features_workflow_name(self)}) = 3
    /\ (op.name = "train" /\ op.lazy /\ ~Raised(ret)) =>
          IsWorkflowNamed(ret, self.name \o ".train")
    /\ (op.name = "predict" /\ PredictorRegistered /\ op.features = None) =>
          IF op.lazy THEN IsWorkflowNamed(ret, self.name \o ".predict")
          ELSE ~Raised(ret) =>
                  /\ calls[1].role = "parser"
                  /\ calls[1].args = <<reader(op.reader_kwargs)>>
                  /\ ret.value.model = op.model
                  /\ ret.value.features = feature_getter(Parsed(reader(op.reader_kwargs)))
    /\ (op.name = "predict" /\ PredictorRegistered /\ op.features # None) =>
          IF op.lazy
          THEN /\ IsWorkflowNamed(ret, self.name \o ".predict_from_features")
               /\ ret.value.inputs = <<"model", "features">>
               /\ \A i \in 1..Len(ret.value.nodes) :
                      ret.value.nodes[i].entity.name = "predict_from_features_task"
          ELSE /\ ret.kind = "return"
               /\ ret.value.kind = "predictions"
               /\ ret.value.model = op.model
               /\ ret.value.features = feature_getter(Parsed(op.features))
               /\ calls[1].role = "parser"
               /\ calls[1].args = <<op.features>>

\* a prediction from features was made by a call that also gave reader
\* keyword arguments
C4_Witness ==
    /\ op.name = "predict" /\ ~op.lazy /\ op.features # None
    /\ DOMAIN op.reader_kwargs # {}
    /\ ret.kind = "return" /\ ret.value.kind = "predictions"

\* C5: _latest_model is None until a non-lazy train succeeds; such a train
\* stores the trained model and the metrics it returns; no other call (a
\* lazy train, a train that raises, predict, remote, a registration)
\* changes _latest_model.
C5_LatestModelIsLastTrained ==
    /\ self._latest_model = None
    /\ [][ IF op'.name = "train" /\ ~op'.lazy /\ ~Raised(ret')
           THEN /\ ret'.value[1].kind = "trained_model"
                /\ self'._latest_model = ret'.value[1]
                /\ self'._latest_metrics = ret'.value[2]
           ELSE self'._latest_model = self._latest_model ]_vars

\* a train raised after an earlier one had succeeded: the model is still there
C5_Witness ==
    /\ op.name = "train" /\ ~op.lazy /\ Raised(ret)
    /\ self._latest_model # None
    /\ self._latest_model.kind = "trained_model"

TrainOrder == <<"get_data", "init", "trainer", "evaluator", "evaluator">>
Roles(cs) == [i \in 1..Len(cs) |-> cs[i].role]
IsPrefix(a, b) == Len(a) <= Len(b) /\ a = SubSeq(b, 1, Len(a))

\* C6: a run of the train task calls, in this order, get_data (parse and
\* split), the initializer once with the hyperparameters, the trainer once
\* with the initializer's result and the train split, and the evaluator
\* twice with the trained model, on the train split and then on the test
\* split; the metrics have the keys train and test and the model returned
\* is what the trainer returned.  A run that raises stops somewhere in that
\* order.
C6_TrainTaskOrder ==
    (op.name = "train" /\ ~op.lazy) =>
        /\ IsPrefix(Roles(calls), TrainOrder)
        /\ ~Raised(ret) =>
              /\ Roles(calls) = TrainOrder
              /\ calls[2].args = <<op.hyperparameters>>
              /\ calls[3].args = <<calls[2].result>> \o calls[1].result["train"]
              /\ calls[4].args = <<calls[3].result>> \o calls[1].result["train"]
              /\ calls[5].args = <<calls[3].result>> \o calls[1].result["test"]
              /\ ret.value[1] = calls[3].result
              /\ DOMAIN ret.value[2] = {"train", "test"}
              /\ ret.value[2]["train"] = calls[4].result
              /\ ret.value[2]["test"] = calls[5].result

\* a train ran the whole task
C6_Witness ==
    /\ op.name = "train" /\ ~op.lazy /\ ~Raised(ret)
    /\ Len(calls) = 5

\* C7 (as claimed): with an initializer of one parameter, however named, a
\* trainer, an evaluator, hyperparameters and the reader's arguments, a
\* non-lazy train succeeds.
C7_TrainSucceedsForAnyHyperparameterName ==
    ( /\ op.name = "train" /\ ~op.lazy /\ op.hyperparameters # None
      /\ DOMAIN op.reader_kwargs = Range(reader_inputs)
      /\ self._init_cls = None
      /\ self._init \in InitFns
      /\ self._trainer \in TrainerFns
      /\ self._evaluator \in EvaluatorFns )
    => ~Raised(ret)

\* C8: the train workflow has as inputs the first input of the train task
\* and then the inputs of the reader task, the two nodes reader task and
\* train task, the train task fed by the hyperparameter input and the
\* reader task's outputs, and the outputs trained_model and metrics of the
\* train node; the predict workflow has as inputs model and then the inputs
\* of the reader task, and as outputs all those of the predict node.
C8_WorkflowShape ==
    /\ (op.name = "train" /\ op.lazy /\ ~Raised(ret)) =>
          LET wf == ret.value
              task == self._train_task
              hp == task.inputs[1]
          IN /\ wf.inputs = <<hp>> \o reader_inputs
             /\ Len(wf.nodes) = 2
             /\ wf.nodes[1].entity = dataset_task
             /\ wf.nodes[1].bindings = [k \in Range(reader_inputs) |-> WfInput(k)]
             /\ wf.nodes[2].entity = task
             /\ wf.nodes[2].bindings =
                    [k \in {hp, data_arg_name} |->
                        IF k = hp THEN [from |-> "input", name |-> hp]
                        ELSE [from |-> "node", node |-> 1, output |-> data_arg_name]]
             /\ wf.outputs =
                    << [name |-> "trained_model",
                        promise |-> [from |-> "node", node |-> 2, output |-> "trained_model"]],
                       [name |-> "metrics",
                        promise |-> [from |-> "node", node |-> 2, output |-> "metrics"]] >>
    /\ (op.name = "predict" /\ op.lazy /\ op.features = None /\ ~Raised(ret)) =>
          LET wf == ret.value
              task == self._predict_task
          IN /\ wf.inputs = <<"model">> \o reader_inputs
             /\ Len(wf.nodes) = 2
             /\ wf.nodes[2].entity = task
             /\ wf.outputs =
                    [i \in 1..Len(task.outputs) |->
                        [name |-> task.outputs[i],
                         promise |-> [from |-> "node", node |-> 2, output |-> task.outputs[i]]]]

\* a lazy train returned the workflow of a model whose initializer calls
\* its parameter hp
C8_Witness ==
    /\ op.name = "train" /\ op.lazy /\ ~Raised(ret)
    /\ ret.value.inputs[1] = "hp"

====
